---- MODULE Spec2Model ----
(***************************************************************************)
(* A model of pdfium-render's PdfPageObject (src/src/page_object.rs) and   *)
(* PdfFontGlyph / PdfFontGlyphPath (src/src/font_glyph.rs).                *)
(*                                                                         *)
(* The native library is reached only through the PdfiumLibraryBindings    *)
(* trait; its answers are inputs of the model.  Rust's Option<T> is        *)
(* written as a sequence of length 0 (None) or 1 (Some(x)); Result<T, E>   *)
(* is a record tagged "Ok" or "Err".                                       *)
(***************************************************************************)
EXTENDS Integers, Sequences, FiniteSets, TLC

VARIABLES
    obj,            \* the PdfPageObject wrapper (variant + wrapped concrete object)
    alive,          \* FALSE once the wrapper has been dropped
    native_type,    \* what FPDFPageObj_GetType reports for the object handle
    destroy_calls,  \* the handles FPDFPageObj_Destroy has been called with
    call,           \* the last operation invoked and what it returned
    prev,           \* the operation invoked before that one
    native_fill,    \* the fill colour the native library holds for the object
    native_stroke,  \* the stroke colour it holds
    native_segments,\* the segment types of the object's path, if it is a path
    native_filters, \* the number of filters applied to it, if it is an image
    copy,           \* the PdfPageObject a successful try_copy() returned, if any
    copy_alive,     \* TRUE from then until that copy is dropped
    native_matrix,  \* the transformation matrix the native library holds for the object
    other_matrix,   \* the matrix it holds for the object given to transform_from()
    glyph_segments, \* the segment handles the native library holds for a glyph path
    native_last_error \* what get_pdfium_last_error() reports

vars ==
    <<obj, alive, native_type, destroy_calls, call, prev, native_fill,
      native_stroke, native_segments, native_filters, copy, copy_alive,
      native_matrix, other_matrix, glyph_segments, native_last_error>>

\* The variables each part of the model leaves alone.
OutsideCopy ==
    <<native_matrix, other_matrix, glyph_segments, native_last_error>>

OutsideMatrix ==
    <<obj, alive, native_type, destroy_calls, native_fill, native_stroke,
      native_segments, native_filters, copy, copy_alive, glyph_segments,
      native_last_error>>

OutsideGlyphPath ==
    <<obj, alive, native_type, destroy_calls, native_fill, native_stroke,
      native_segments, native_filters, copy, copy_alive, native_matrix,
      other_matrix, native_last_error>>

OutsideBlendMode ==
    <<obj, alive, native_type, destroy_calls, prev, native_fill, native_stroke,
      native_segments, native_filters, copy, copy_alive, native_matrix,
      other_matrix, glyph_segments>>

OutsideLifecycle ==
    <<native_fill, native_stroke, native_segments, native_filters, copy,
      copy_alive, OutsideCopy>>

OutsideColor ==
    <<obj, alive, native_type, destroy_calls, native_segments, native_filters,
      copy, copy_alive, OutsideCopy>>

OutsideCalls ==
    <<obj, alive, native_type, destroy_calls, prev, native_fill, native_stroke,
      native_segments, native_filters, copy, copy_alive, OutsideCopy>>

----------------------------------------------------------------------------
\* Bounds of the model.

MaxPages == 2
MaxAnnotations == 2
MaxObjects == 2
MaxTypeCode == 7
MaxPathSegments == 2
MaxFilters == 1
MaxGlyphSegments == 2
MaxScale == 2
MaxTranslate == 1

PageHandles == 1..MaxPages
AnnotationHandles == 1..MaxAnnotations
ObjectHandles == 1..MaxObjects
\* c_int values FPDFPageObj_GetType may return, among them negative and
\* unrecognized ones.
TypeCodes == (-2)..MaxTypeCode

----------------------------------------------------------------------------
\* Option and Result.

None == <<>>

Some(x) == <<x>>

Option(S) == {None} \cup {Some(x) : x \in S}

is_some(o) == o # None

Ok(v) == [tag |-> "Ok", val |-> v]

Err(e) == [tag |-> "Err", err |-> e]

is_ok(r) == r.tag = "Ok"

is_err(r) == r.tag = "Err"

Unit == "()"

\* PdfiumError values: the variant and, where the variant carries one, its
\* payload.
PdfiumError(kind) == [kind |-> kind, code |-> "none"]

PdfiumLibraryInternalError(e) ==
    [kind |-> "PdfiumLibraryInternalError", code |-> e]

\* A u32 is kept as its two 16-bit halves.
U16 == 65536

\* `value as u32` for a c_int value: the two's complement bit pattern.
as_u32(value) == [hi |-> (value \div U16) % U16, lo |-> value % U16]

----------------------------------------------------------------------------
\* crate::bindgen constants (values of pdfium's fpdf_edit.h).

FPDF_PAGEOBJ_UNKNOWN == 0
FPDF_PAGEOBJ_TEXT == 1
FPDF_PAGEOBJ_PATH == 2
FPDF_PAGEOBJ_IMAGE == 3
FPDF_PAGEOBJ_SHADING == 4
FPDF_PAGEOBJ_FORM == 5

----------------------------------------------------------------------------
\* PdfPageObjectType.

PdfPageObjectType ==
    {"Unsupported", "Text", "Path", "Image", "Shading", "FormFragment"}

\* Mutant: the Image and Shading arms exchanged.
PdfPageObjectType_from_pdfium_swapped(value) ==
    CASE value = as_u32(FPDF_PAGEOBJ_UNKNOWN) -> Ok("Unsupported")
      [] value = as_u32(FPDF_PAGEOBJ_TEXT) -> Ok("Text")
      [] value = as_u32(FPDF_PAGEOBJ_PATH) -> Ok("Path")
      [] value = as_u32(FPDF_PAGEOBJ_IMAGE) -> Ok("Shading")
      [] value = as_u32(FPDF_PAGEOBJ_SHADING) -> Ok("Image")
      [] value = as_u32(FPDF_PAGEOBJ_FORM) -> Ok("FormFragment")
      [] OTHER -> Err(PdfiumError("UnknownPdfPageObjectType"))

\* PdfPageObjectType::from_pdfium(value: u32) -> Result<PdfPageObjectType, PdfiumError>
PdfPageObjectType_from_pdfium(value) ==
    CASE value = as_u32(FPDF_PAGEOBJ_UNKNOWN) -> Ok("Unsupported")
      [] value = as_u32(FPDF_PAGEOBJ_TEXT) -> Ok("Text")
      [] value = as_u32(FPDF_PAGEOBJ_PATH) -> Ok("Path")
      [] value = as_u32(FPDF_PAGEOBJ_IMAGE) -> Ok("Image")
      [] value = as_u32(FPDF_PAGEOBJ_SHADING) -> Ok("Shading")
      [] value = as_u32(FPDF_PAGEOBJ_FORM) -> Ok("FormFragment")
      [] OTHER -> Err(PdfiumError("UnknownPdfPageObjectType"))

\* Result::unwrap_or
unwrap_or(r, default) == IF is_ok(r) THEN r.val ELSE default

----------------------------------------------------------------------------
\* The concrete page object types (PdfPageTextObject, PdfPagePathObject, ...)
\* and their PdfPageObjectPrivate implementation.  Each wraps the object
\* handle and the optional handles of the page and of the annotation that
\* contain it.

\* Pdf*Object::from_pdfium(object_handle, page_handle, annotation_handle, bindings)
Concrete_from_pdfium(kind, object_handle, page_handle, annotation_handle) ==
    [kind |-> kind,
     object_handle |-> object_handle,
     page_handle |-> page_handle,
     annotation_handle |-> annotation_handle]

Concrete_get_object_handle(c) == c.object_handle

Concrete_get_page_handle(c) == c.page_handle

Concrete_set_page_handle(c, page) == [c EXCEPT !.page_handle = Some(page)]

Concrete_clear_page_handle(c) == [c EXCEPT !.page_handle = None]

Concrete_get_annotation_handle(c) == c.annotation_handle

Concrete_set_annotation_handle(c, annotation) ==
    [c EXCEPT !.annotation_handle = Some(annotation)]

Concrete_clear_annotation_handle(c) == [c EXCEPT !.annotation_handle = None]

\* The ownership flag: true when the handle's lifetime is managed by a
\* containing page or annotation.
Concrete_is_object_memory_owned_by_container(c) ==
    is_some(c.page_handle) \/ is_some(c.annotation_handle)

\* Each of the four returns <<result, object after the call>>; native_ok is
\* whether the native insert / remove call succeeded.
Concrete_add_object_to_page(c, page, native_ok) ==
    IF native_ok
    THEN <<Ok(Unit), Concrete_set_page_handle(c, page)>>
    ELSE <<Err(PdfiumLibraryInternalError("Unknown")), c>>

Concrete_remove_object_from_page(c, native_ok) ==
    IF ~is_some(c.page_handle)
    THEN <<Err(PdfiumError("PageObjectNotAttachedToPage")), c>>
    ELSE IF native_ok
         THEN <<Ok(Unit), Concrete_clear_page_handle(c)>>
         ELSE <<Err(PdfiumLibraryInternalError("Unknown")), c>>

Concrete_add_object_to_annotation(c, annotation, native_ok) ==
    IF native_ok
    THEN <<Ok(Unit), Concrete_set_annotation_handle(c, annotation)>>
    ELSE <<Err(PdfiumLibraryInternalError("Unknown")), c>>

Concrete_remove_object_from_annotation(c, native_ok) ==
    IF ~is_some(c.annotation_handle)
    THEN <<Err(PdfiumError("PageObjectNotAttachedToAnnotation")), c>>
    ELSE IF native_ok
         THEN <<Ok(Unit), Concrete_clear_annotation_handle(c)>>
         ELSE <<Err(PdfiumLibraryInternalError("Unknown")), c>>

\* The types a segment of a path object can have.
PdfPathSegmentType == {"LineTo", "BezierTo"}

\* Copy feasibility: the object holds no feature a copy cannot reproduce.
\* segments are the segment types of a path object's path, filters the
\* number of filters applied to an image object.
Concrete_is_copyable_impl(c, segments, filters) ==
    CASE c.kind = "PdfPagePathObject" ->
             ~\E i \in 1..Len(segments) : segments[i] = "BezierTo"
      [] c.kind = "PdfPageImageObject" -> filters = 0
      [] OTHER -> TRUE

----------------------------------------------------------------------------
\* enum PdfPageObject: a variant tag and the concrete object it wraps.

Variant(tag, object) == [variant |-> tag, object |-> object]

\* impl From<Pdf*Object> for PdfPageObject
From(c) ==
    CASE c.kind = "PdfPageTextObject" -> Variant("Text", c)
      [] c.kind = "PdfPagePathObject" -> Variant("Path", c)
      [] c.kind = "PdfPageImageObject" -> Variant("Image", c)
      [] c.kind = "PdfPageShadingObject" -> Variant("Shading", c)
      [] c.kind = "PdfPageFormFragmentObject" -> Variant("FormFragment", c)
      [] c.kind = "PdfPageUnsupportedObject" -> Variant("Unsupported", c)

\* The copy: refused, without a native call, when the object is not
\* copyable; otherwise a new native object is created in the destination
\* document (new_handle, null when the native library fails) and wrapped,
\* detached from any page and annotation.
Concrete_try_copy_impl(c, segments, filters, new_handle) ==
    IF ~Concrete_is_copyable_impl(c, segments, filters)
    THEN Err(PdfiumError("PageObjectNotCopyable"))
    ELSE IF new_handle = 0
         THEN Err(PdfiumLibraryInternalError("Unknown"))
         ELSE Ok(From(Concrete_from_pdfium(c.kind, new_handle, None, None)))

\* PdfPageObjectCommon::is_copyable and try_copy of a concrete object (the
\* blanket implementation).
Concrete_is_copyable(c, segments, filters) ==
    Concrete_is_copyable_impl(c, segments, filters)

Concrete_try_copy(c, segments, filters, new_handle) ==
    Concrete_try_copy_impl(c, segments, filters, new_handle)

\* PdfPageObject::from_pdfium; type_code is bindings.FPDFPageObj_GetType(object_handle).
from_pdfium(object_handle, page_handle, annotation_handle, type_code) ==
    LET t == unwrap_or(PdfPageObjectType_from_pdfium(as_u32(type_code)),
                       "Unsupported")
    IN  CASE t = "Unsupported" ->
               Variant("Unsupported", Concrete_from_pdfium(
                   "PdfPageUnsupportedObject", object_handle, page_handle,
                   annotation_handle))
          [] t = "Text" ->
               Variant("Text", Concrete_from_pdfium(
                   "PdfPageTextObject", object_handle, page_handle,
                   annotation_handle))
          [] t = "Path" ->
               Variant("Path", Concrete_from_pdfium(
                   "PdfPagePathObject", object_handle, page_handle,
                   annotation_handle))
          [] t = "Image" ->
               Variant("Image", Concrete_from_pdfium(
                   "PdfPageImageObject", object_handle, page_handle,
                   annotation_handle))
          [] t = "Shading" ->
               Variant("Shading", Concrete_from_pdfium(
                   "PdfPageShadingObject", object_handle, page_handle,
                   annotation_handle))
          [] t = "FormFragment" ->
               Variant("FormFragment", Concrete_from_pdfium(
                   "PdfPageFormFragmentObject", object_handle, page_handle,
                   annotation_handle))

\* PdfPageObject::unwrap_as_trait
unwrap_as_trait(o) ==
    CASE o.variant = "Text" -> o.object
      [] o.variant = "Path" -> o.object
      [] o.variant = "Image" -> o.object
      [] o.variant = "Shading" -> o.object
      [] o.variant = "FormFragment" -> o.object
      [] o.variant = "Unsupported" -> o.object

\* Mutant: the Shading arm of the mutable dispatch hands out the Image
\* variant.
unwrap_as_trait_mut_wrong_arm(o, object) ==
    CASE o.variant = "Text" -> Variant("Text", object)
      [] o.variant = "Path" -> Variant("Path", object)
      [] o.variant = "Image" -> Variant("Image", object)
      [] o.variant = "Shading" -> Variant("Image", object)
      [] o.variant = "FormFragment" -> Variant("FormFragment", object)
      [] o.variant = "Unsupported" -> Variant("Unsupported", object)

\* PdfPageObject::unwrap_as_trait_mut: the wrapper with the wrapped object
\* replaced by what the mutation left of it.
unwrap_as_trait_mut(o, object) ==
    CASE o.variant = "Text" -> Variant("Text", object)
      [] o.variant = "Path" -> Variant("Path", object)
      [] o.variant = "Image" -> Variant("Image", object)
      [] o.variant = "Shading" -> Variant("Shading", object)
      [] o.variant = "FormFragment" -> Variant("FormFragment", object)
      [] o.variant = "Unsupported" -> Variant("Unsupported", object)

\* PdfPageObject::object_type
object_type(o) ==
    CASE o.variant = "Text" -> "Text"
      [] o.variant = "Path" -> "Path"
      [] o.variant = "Image" -> "Image"
      [] o.variant = "Shading" -> "Shading"
      [] o.variant = "FormFragment" -> "FormFragment"
      [] o.variant = "Unsupported" -> "Unsupported"

----------------------------------------------------------------------------
\* The typed-narrowing accessors of PdfPageObject; the _mut ones return the
\* same object by mutable reference.

as_text_object(o) == IF o.variant = "Text" THEN Some(o.object) ELSE None

as_text_object_mut(o) == IF o.variant = "Text" THEN Some(o.object) ELSE None

as_path_object(o) == IF o.variant = "Path" THEN Some(o.object) ELSE None

as_path_object_mut(o) == IF o.variant = "Path" THEN Some(o.object) ELSE None

as_image_object(o) == IF o.variant = "Image" THEN Some(o.object) ELSE None

as_image_object_mut(o) == IF o.variant = "Image" THEN Some(o.object) ELSE None

\* Mutant: the accessor matches the Image variant.
as_shading_object_wrong_arm(o) ==
    IF o.variant = "Image" THEN Some(o.object) ELSE None

as_shading_object(o) == IF o.variant = "Shading" THEN Some(o.object) ELSE None

as_shading_object_mut(o) == IF o.variant = "Shading" THEN Some(o.object) ELSE None

as_form_fragment_object(o) ==
    IF o.variant = "FormFragment" THEN Some(o.object) ELSE None

as_form_fragment_object_mut(o) ==
    IF o.variant = "FormFragment" THEN Some(o.object) ELSE None

\* The accessors the type has, by name.
Accessors ==
    {"as_text_object", "as_path_object", "as_image_object",
     "as_shading_object", "as_form_fragment_object"}

MutAccessors ==
    {"as_text_object_mut", "as_path_object_mut", "as_image_object_mut",
     "as_shading_object_mut", "as_form_fragment_object_mut"}

Narrow(name, o) ==
    CASE name = "as_text_object" -> as_text_object(o)
      [] name = "as_text_object_mut" -> as_text_object_mut(o)
      [] name = "as_path_object" -> as_path_object(o)
      [] name = "as_path_object_mut" -> as_path_object_mut(o)
      [] name = "as_image_object" -> as_image_object(o)
      [] name = "as_image_object_mut" -> as_image_object_mut(o)
      [] name = "as_shading_object" -> as_shading_object(o)
      [] name = "as_shading_object_mut" -> as_shading_object_mut(o)
      [] name = "as_form_fragment_object" -> as_form_fragment_object(o)
      [] name = "as_form_fragment_object_mut" -> as_form_fragment_object_mut(o)

----------------------------------------------------------------------------
\* impl PdfPageObjectPrivate for PdfPageObject: every operation is handed to
\* the wrapped concrete object.

get_object_handle(o) == Concrete_get_object_handle(unwrap_as_trait(o))

get_page_handle(o) == Concrete_get_page_handle(unwrap_as_trait(o))

set_page_handle(o, page) ==
    unwrap_as_trait_mut(o, Concrete_set_page_handle(unwrap_as_trait(o), page))

clear_page_handle(o) ==
    unwrap_as_trait_mut(o, Concrete_clear_page_handle(unwrap_as_trait(o)))

get_annotation_handle(o) == Concrete_get_annotation_handle(unwrap_as_trait(o))

set_annotation_handle(o, annotation) ==
    unwrap_as_trait_mut(
        o, Concrete_set_annotation_handle(unwrap_as_trait(o), annotation))

clear_annotation_handle(o) ==
    unwrap_as_trait_mut(o, Concrete_clear_annotation_handle(unwrap_as_trait(o)))

is_object_memory_owned_by_container(o) ==
    Concrete_is_object_memory_owned_by_container(unwrap_as_trait(o))

\* Mutant: the call goes to the wrapped object through the immutable
\* dispatch, so its effect is lost.
remove_object_from_page_lost(o, native_ok) ==
    LET r == Concrete_remove_object_from_page(unwrap_as_trait(o), native_ok)
    IN  <<r[1], o>>

\* Mutant: the same for add_object_to_annotation.
add_object_to_annotation_lost(o, annotation, native_ok) ==
    LET r == Concrete_add_object_to_annotation(
                 unwrap_as_trait(o), annotation, native_ok)
    IN  <<r[1], o>>

\* The four below return <<result, wrapper after the call>>.
add_object_to_page(o, page, native_ok) ==
    LET r == Concrete_add_object_to_page(unwrap_as_trait(o), page, native_ok)
    IN  <<r[1], unwrap_as_trait_mut(o, r[2])>>

remove_object_from_page(o, native_ok) ==
    LET r == Concrete_remove_object_from_page(unwrap_as_trait(o), native_ok)
    IN  <<r[1], unwrap_as_trait_mut(o, r[2])>>

add_object_to_annotation(o, annotation, native_ok) ==
    LET r == Concrete_add_object_to_annotation(
                 unwrap_as_trait(o), annotation, native_ok)
    IN  <<r[1], unwrap_as_trait_mut(o, r[2])>>

remove_object_from_annotation(o, native_ok) ==
    LET r == Concrete_remove_object_from_annotation(
                 unwrap_as_trait(o), native_ok)
    IN  <<r[1], unwrap_as_trait_mut(o, r[2])>>

\* Mutant: every object is reported copyable.
is_copyable_impl_always(o, segments, filters) == TRUE

is_copyable_impl(o, segments, filters) ==
    Concrete_is_copyable_impl(unwrap_as_trait(o), segments, filters)

\* Mutant: the copy is the object itself, with the handles it holds.
try_copy_impl_shallow(o, segments, filters, new_handle) ==
    IF Concrete_is_copyable_impl(unwrap_as_trait(o), segments, filters)
       /\ new_handle # 0
    THEN Ok(o)
    ELSE Concrete_try_copy(unwrap_as_trait(o), segments, filters, new_handle)

try_copy_impl(o, segments, filters, new_handle) ==
    Concrete_try_copy(unwrap_as_trait(o), segments, filters, new_handle)

\* PdfPageObjectCommon::is_copyable and try_copy of a PdfPageObject.
is_copyable(o, segments, filters) == is_copyable_impl(o, segments, filters)

try_copy(o, segments, filters, new_handle) ==
    try_copy_impl(o, segments, filters, new_handle)

\* Mutant: drop() without the ownership test.
drop_unconditional(o) == <<get_object_handle(o)>>

\* impl Drop for PdfPageObject: the FPDFPageObj_Destroy calls drop() issues,
\* as the sequence of their handle arguments.
drop(o) ==
    IF ~is_object_memory_owned_by_container(o)
    THEN <<get_object_handle(o)>>
    ELSE <<>>

----------------------------------------------------------------------------
\* The attachment states of section 4.3, read off the two handles.

Unattached(o) ==
    ~is_some(get_page_handle(o)) /\ ~is_some(get_annotation_handle(o))

AttachedToPage(o) ==
    is_some(get_page_handle(o)) /\ ~is_some(get_annotation_handle(o))

AttachedToAnnotation(o) ==
    ~is_some(get_page_handle(o)) /\ is_some(get_annotation_handle(o))

----------------------------------------------------------------------------
\* The life of one PdfPageObject.

NoCall == [op |-> "none", ret |-> None]

\* PdfMatrix::IDENTITY; a matrix is written as its six coefficients
\* <<a, b, c, d, e, f>>.
PdfMatrix_IDENTITY == <<1, 0, 0, 1, 0, 0>>

\* The state of the parts a specification does not exercise: no copy has
\* been made, both objects are untransformed, the glyph path is empty, no
\* native call has failed.
NoCopy ==
    /\ native_segments = <<>>
    /\ native_filters = 0
    /\ copy = None
    /\ copy_alive = FALSE

NoTransform ==
    /\ native_matrix = PdfMatrix_IDENTITY
    /\ other_matrix = PdfMatrix_IDENTITY

NoGlyphPath == glyph_segments = <<>>

NoLastError == native_last_error = None

\* The wrapper is built by PdfPageObject::from_pdfium around a handle whose
\* native type code is native_type.
Init ==
    /\ native_type \in TypeCodes
    /\ \E h \in ObjectHandles, p \in Option(PageHandles),
          a \in Option(AnnotationHandles) :
           obj = from_pdfium(h, p, a, native_type)
    /\ alive = TRUE
    /\ destroy_calls = <<>>
    /\ call = NoCall
    /\ prev = NoCall
    /\ native_fill = <<0, 0, 0, 255>>
    /\ native_stroke = <<0, 0, 0, 255>>
    /\ NoCopy
    /\ NoTransform
    /\ NoGlyphPath
    /\ NoLastError

\* Attaching is defined for an Unattached object only (section 4.3).
AddObjectToPage ==
    /\ alive
    /\ Unattached(obj)
    /\ \E page \in PageHandles, native_ok \in BOOLEAN :
           LET r == add_object_to_page(obj, page, native_ok)
           IN  /\ obj' = r[2]
               /\ call' = [op |-> "add_object_to_page", ret |-> r[1]]
    /\ prev' = call
    /\ UNCHANGED <<alive, native_type, destroy_calls, OutsideLifecycle>>

RemoveObjectFromPage ==
    /\ alive
    /\ \E native_ok \in BOOLEAN :
           LET r == remove_object_from_page(obj, native_ok)
           IN  /\ obj' = r[2]
               /\ call' = [op |-> "remove_object_from_page", ret |-> r[1]]
    /\ prev' = call
    /\ UNCHANGED <<alive, native_type, destroy_calls, OutsideLifecycle>>

AddObjectToAnnotation ==
    /\ alive
    /\ Unattached(obj)
    /\ \E annotation \in AnnotationHandles, native_ok \in BOOLEAN :
           LET r == add_object_to_annotation(obj, annotation, native_ok)
           IN  /\ obj' = r[2]
               /\ call' = [op |-> "add_object_to_annotation", ret |-> r[1]]
    /\ prev' = call
    /\ UNCHANGED <<alive, native_type, destroy_calls, OutsideLifecycle>>

RemoveObjectFromAnnotation ==
    /\ alive
    /\ \E native_ok \in BOOLEAN :
           LET r == remove_object_from_annotation(obj, native_ok)
           IN  /\ obj' = r[2]
               /\ call' = [op |-> "remove_object_from_annotation", ret |-> r[1]]
    /\ prev' = call
    /\ UNCHANGED <<alive, native_type, destroy_calls, OutsideLifecycle>>

\* A call of one of the narrowing accessors.
NarrowObject ==
    /\ alive
    /\ \E name \in Accessors \cup MutAccessors :
           call' = [op |-> name, ret |-> Narrow(name, obj)]
    /\ prev' = call
    /\ UNCHANGED <<obj, alive, native_type, destroy_calls, OutsideLifecycle>>

\* A call of object_type().
ObjectType ==
    /\ alive
    /\ call' = [op |-> "object_type", ret |-> object_type(obj)]
    /\ prev' = call
    /\ UNCHANGED <<obj, alive, native_type, destroy_calls, OutsideLifecycle>>

\* The wrapper goes out of scope.
Drop ==
    /\ alive
    /\ alive' = FALSE
    /\ destroy_calls' = destroy_calls \o drop(obj)
    /\ call' = [op |-> "drop", ret |-> None]
    /\ prev' = call
    /\ UNCHANGED <<obj, native_type, OutsideLifecycle>>

Next ==
    \/ AddObjectToPage
    \/ RemoveObjectFromPage
    \/ AddObjectToAnnotation
    \/ RemoveObjectFromAnnotation
    \/ NarrowObject
    \/ ObjectType
    \/ Drop

Spec == Init /\ [][Next]_vars

----------------------------------------------------------------------------
\* Copies of a PdfPageObject: the life of an object and of its copy.

\* The paths a path object may hold.
PathSegments ==
    UNION {[1..n -> PdfPathSegmentType] : n \in 0..MaxPathSegments}

\* The handles the native library may return for a new object: null, or a
\* handle no other object has.
NewHandles(o) == {0} \cup (ObjectHandles \ {get_object_handle(o)})

InitCopy ==
    /\ native_type \in TypeCodes
    /\ \E h \in ObjectHandles, p \in Option(PageHandles),
          a \in Option(AnnotationHandles) :
           obj = from_pdfium(h, p, a, native_type)
    /\ alive = TRUE
    /\ destroy_calls = <<>>
    /\ call = NoCall
    /\ prev = NoCall
    /\ native_fill = <<0, 0, 0, 255>>
    /\ native_stroke = <<0, 0, 0, 255>>
    /\ native_segments \in
           IF obj.variant = "Path" THEN PathSegments ELSE {<<>>}
    /\ native_filters \in
           IF obj.variant = "Image" THEN 0..MaxFilters ELSE {0}
    /\ copy = None
    /\ copy_alive = FALSE
    /\ NoTransform
    /\ NoGlyphPath
    /\ NoLastError

\* A call of is_copyable().
IsCopyable ==
    /\ alive
    /\ call' = [op |-> "is_copyable",
                ret |-> is_copyable(obj, native_segments, native_filters)]
    /\ prev' = call
    /\ UNCHANGED <<obj, alive, native_type, destroy_calls, OutsideLifecycle>>

\* A call of try_copy(); the model follows the first copy that is made.
TryCopy ==
    /\ alive
    /\ copy = None
    /\ \E new_handle \in NewHandles(obj) :
           LET r == try_copy(obj, native_segments, native_filters, new_handle)
           IN  /\ call' = [op |-> "try_copy", arg |-> new_handle, ret |-> r]
               /\ copy' = IF is_ok(r) THEN Some(r.val) ELSE copy
               /\ copy_alive' = is_ok(r)
    /\ prev' = call
    /\ UNCHANGED <<obj, alive, native_type, destroy_calls, native_fill,
                   native_stroke, native_segments, native_filters,
                   OutsideCopy>>

\* The copy goes out of scope.
DropCopy ==
    /\ copy_alive
    /\ copy_alive' = FALSE
    /\ destroy_calls' = destroy_calls \o drop(copy[1])
    /\ call' = [op |-> "drop copy", ret |-> None]
    /\ prev' = call
    /\ UNCHANGED <<obj, alive, native_type, native_fill, native_stroke,
                   native_segments, native_filters, copy, OutsideCopy>>

NextCopy ==
    \/ AddObjectToPage
    \/ RemoveObjectFromPage
    \/ AddObjectToAnnotation
    \/ RemoveObjectFromAnnotation
    \/ IsCopyable
    \/ TryCopy
    \/ DropCopy
    \/ Drop

SpecCopy == InitCopy /\ [][NextCopy]_vars

----------------------------------------------------------------------------
\* Claims about copies (specification SpecCopy).

\* is_copyable() was called and try_copy() right after it.
CopyAfterQuery == prev.op = "is_copyable" /\ call.op = "try_copy"

C12_CopyIsUnattached ==
    /\ [](copy_alive =>
             /\ get_page_handle(copy[1]) = None
             /\ get_annotation_handle(copy[1]) = None
             /\ ~is_object_memory_owned_by_container(copy[1]))
    /\ [][(call'.op = "try_copy" /\ is_ok(call'.ret)) =>
              /\ copy' = Some(call'.ret.val)
              /\ obj' = obj
              /\ Unattached(obj') = Unattached(obj)
              /\ is_object_memory_owned_by_container(obj') =
                     is_object_memory_owned_by_container(obj)]_vars
    /\ [][(copy_alive /\ ~copy_alive') =>
              destroy_calls' =
                  Append(destroy_calls, get_object_handle(copy[1]))]_vars

\* The copy of an object attached to a page was dropped: the one
\* FPDFPageObj_Destroy call made is the one for the copy's handle.
C12_Witness ==
    /\ call.op = "drop copy"
    /\ prev.op = "try_copy"
    /\ AttachedToPage(obj)
    /\ alive
    /\ destroy_calls = <<get_object_handle(copy[1])>>

\* What an operation on the wrapped concrete object returned, with the
\* wrapper around what it left of that object.
Wrapped(o, r) == <<r[1], Variant(o.variant, r[2])>>

\* The shared operations of the union o, each against the same operation
\* of the concrete object o wraps.
DispatchAgrees(o) ==
    /\ unwrap_as_trait(o) = o.object
    /\ unwrap_as_trait_mut(o, o.object) = o
    /\ get_object_handle(o) = Concrete_get_object_handle(o.object)
    /\ get_page_handle(o) = Concrete_get_page_handle(o.object)
    /\ get_annotation_handle(o) = Concrete_get_annotation_handle(o.object)
    /\ is_object_memory_owned_by_container(o) =
           Concrete_is_object_memory_owned_by_container(o.object)
    /\ clear_page_handle(o) =
           Variant(o.variant, Concrete_clear_page_handle(o.object))
    /\ clear_annotation_handle(o) =
           Variant(o.variant, Concrete_clear_annotation_handle(o.object))
    /\ \A page \in PageHandles :
           set_page_handle(o, page) =
               Variant(o.variant, Concrete_set_page_handle(o.object, page))
    /\ \A annotation \in AnnotationHandles :
           set_annotation_handle(o, annotation) =
               Variant(o.variant,
                       Concrete_set_annotation_handle(o.object, annotation))
    /\ \A native_ok \in BOOLEAN :
           /\ \A page \in PageHandles :
                  add_object_to_page(o, page, native_ok) =
                      Wrapped(o, Concrete_add_object_to_page(
                                     o.object, page, native_ok))
           /\ \A annotation \in AnnotationHandles :
                  add_object_to_annotation(o, annotation, native_ok) =
                      Wrapped(o, Concrete_add_object_to_annotation(
                                     o.object, annotation, native_ok))
           /\ remove_object_from_page(o, native_ok) =
                  Wrapped(o, Concrete_remove_object_from_page(
                                 o.object, native_ok))
           /\ remove_object_from_annotation(o, native_ok) =
                  Wrapped(o, Concrete_remove_object_from_annotation(
                                 o.object, native_ok))
    /\ is_copyable(o, native_segments, native_filters) =
           Concrete_is_copyable(o.object, native_segments, native_filters)
    /\ \A new_handle \in NewHandles(o) :
           try_copy(o, native_segments, native_filters, new_handle) =
               Concrete_try_copy(o.object, native_segments, native_filters,
                                 new_handle)

----------------------------------------------------------------------------
\* Claims about the life of a PdfPageObject (specification Spec).

\* C1: whatever attach / detach calls came before, dropping the wrapper calls
\* FPDFPageObj_Destroy no time if is_object_memory_owned_by_container() is
\* true at that moment and exactly once, with the wrapper's own object
\* handle, if it is false; nothing else calls it.
C1_DropReleasesIffNotOwned ==
    /\ [](alive => destroy_calls = <<>>)
    /\ [][IF alive /\ ~alive'
          THEN destroy_calls' =
                   IF is_object_memory_owned_by_container(obj)
                   THEN destroy_calls
                   ELSE Append(destroy_calls, get_object_handle(obj))
          ELSE destroy_calls' = destroy_calls]_vars

\* An object that was attached to a page, detached and then dropped: its
\* handle was released once.
C1_Witness ==
    /\ ~alive
    /\ prev.op = "remove_object_from_page"
    /\ is_ok(prev.ret)
    /\ destroy_calls = <<get_object_handle(obj)>>

\* C2: add_object_to_page then remove_object_from_page, both succeeding, on
\* an Unattached object of any kind leave the ownership flag false and no
\* page handle: the object is Unattached again.
C2_AttachDetachRoundTrip ==
    (/\ prev.op = "add_object_to_page"
     /\ is_ok(prev.ret)
     /\ call.op = "remove_object_from_page"
     /\ is_ok(call.ret))
    => /\ ~is_object_memory_owned_by_container(obj)
       /\ get_page_handle(obj) = None
       /\ Unattached(obj)

C2_Witness ==
    /\ prev.op = "add_object_to_page"
    /\ is_ok(prev.ret)
    /\ call.op = "remove_object_from_page"
    /\ is_ok(call.ret)
    /\ object_type(obj) = "Shading"
    /\ Unattached(obj)

Narrowing(names, o) == {name \in names : is_some(Narrow(name, o))}

\* C5 as stated: for an object of any of the six kinds exactly one of the
\* narrowing accessors returns a value, and so for the mutable ones.
C5_ExactlyOneAccessor ==
    /\ Cardinality(Narrowing(Accessors, obj)) = 1
    /\ Cardinality(Narrowing(MutAccessors, obj)) = 1

\* The accessor that belongs to a kind; Unsupported has none.
AccessorOf(kind) ==
    CASE kind = "Text" -> {"as_text_object"}
      [] kind = "Path" -> {"as_path_object"}
      [] kind = "Image" -> {"as_image_object"}
      [] kind = "Shading" -> {"as_shading_object"}
      [] kind = "FormFragment" -> {"as_form_fragment_object"}
      [] kind = "Unsupported" -> {}

MutAccessorOf(kind) ==
    CASE kind = "Text" -> {"as_text_object_mut"}
      [] kind = "Path" -> {"as_path_object_mut"}
      [] kind = "Image" -> {"as_image_object_mut"}
      [] kind = "Shading" -> {"as_shading_object_mut"}
      [] kind = "FormFragment" -> {"as_form_fragment_object_mut"}
      [] kind = "Unsupported" -> {}

\* C5 as amended: there are five accessors (and five mutable ones); for an
\* object of kind Text, Path, Image, Shading or FormFragment exactly the
\* accessor of its kind returns a value, the wrapped object, and for an
\* Unsupported object all of them return None.
C5_AccessorOfKindOnly ==
    /\ Narrowing(Accessors, obj) = AccessorOf(object_type(obj))
    /\ Narrowing(MutAccessors, obj) = MutAccessorOf(object_type(obj))
    /\ \A name \in Narrowing(Accessors \cup MutAccessors, obj) :
           Narrow(name, obj) = Some(unwrap_as_trait(obj))
    /\ call.op \in Accessors \cup MutAccessors
       => call.ret = Narrow(call.op, obj)

\* as_shading_object() was called on a Shading object and returned it.
C5_Witness ==
    /\ call.op = "as_shading_object"
    /\ object_type(obj) = "Shading"
    /\ call.ret = Some(unwrap_as_trait(obj))
    /\ Narrowing(Accessors, obj) = {"as_shading_object"}

\* The kind a native type code stands for.
KindOfCode(code) ==
    CASE code = 1 -> "Text"
      [] code = 2 -> "Path"
      [] code = 3 -> "Image"
      [] code = 4 -> "Shading"
      [] code = 5 -> "FormFragment"
      [] OTHER -> "Unsupported"

\* C6: for every type code FPDFPageObj_GetType returns, from_pdfium builds
\* an object whose object_type() is the kind of that code, Unsupported for
\* FPDF_PAGEOBJ_UNKNOWN and for every unrecognized code, for which
\* PdfPageObjectType::from_pdfium itself returns an error.
C6_KindOfTypeCode ==
    /\ object_type(obj) = KindOfCode(native_type)
    /\ native_type \notin 0..5
       => is_err(PdfPageObjectType_from_pdfium(as_u32(native_type)))
    /\ call.op = "object_type" => call.ret = KindOfCode(native_type)

\* object_type() answered Unsupported for an object built from a negative
\* type code.
C6_Witness ==
    /\ native_type < 0
    /\ call.op = "object_type"
    /\ call.ret = "Unsupported"

----------------------------------------------------------------------------
\* Colours (PdfPageObjectCommon::fill_color and its three siblings).

\* PdfiumLibraryBindings::is_true for an FPDF_BOOL.
is_true(bool) == bool # 0

FPDF_BOOL == {0, 1}

\* PdfColor::new
PdfColor_new(r, g, b, a) == [red |-> r, green |-> g, blue |-> b, alpha |-> a]

\* u8::try_from for a c_uint value.
try_into_u8(value) ==
    IF 0 <= value /\ value <= 255 THEN Ok(value) ELSE Err("TryFromIntError")

\* `value as c_uint` for a u8: zero extension, which changes no value.
as_c_uint(value) == value

UnableToConvertPdfiumColorValueToRustu8(e) ==
    [kind |-> "UnableToConvertPdfiumColorValueToRustu8", code |-> e]

\* The body shared by fill_color() and stroke_color(): ret is what the native
\* getter returned and r, g, b, a what it left in the out-parameters.
color_from_native(ret, r, g, b, a) ==
    IF is_true(ret)
    THEN IF is_err(try_into_u8(r))
         THEN Err(UnableToConvertPdfiumColorValueToRustu8(try_into_u8(r).err))
         ELSE IF is_err(try_into_u8(g))
         THEN Err(UnableToConvertPdfiumColorValueToRustu8(try_into_u8(g).err))
         ELSE IF is_err(try_into_u8(b))
         THEN Err(UnableToConvertPdfiumColorValueToRustu8(try_into_u8(b).err))
         ELSE IF is_err(try_into_u8(a))
         THEN Err(UnableToConvertPdfiumColorValueToRustu8(try_into_u8(a).err))
         ELSE Ok(PdfColor_new(try_into_u8(r).val, try_into_u8(g).val,
                              try_into_u8(b).val, try_into_u8(a).val))
    ELSE Err(PdfiumError("PdfiumFunctionReturnValueIndicatedFailure"))

\* Mutant: the channels are narrowed with `as u8`, which wraps.
fill_color_wrapping(ret, r, g, b, a) ==
    color_from_native(ret, r % 256, g % 256, b % 256, a % 256)

\* fill_color(): the native call is FPDFPageObj_GetFillColor.
fill_color(ret, r, g, b, a) == color_from_native(ret, r, g, b, a)

\* stroke_color(): the native call is FPDFPageObj_GetStrokeColor.
stroke_color(ret, r, g, b, a) == color_from_native(ret, r, g, b, a)

\* A setter's native call and, given the FPDF_BOOL it returns, its result.
Setter(function, args, ret) ==
    [function |-> function,
     args |-> args,
     result |-> IF is_true(ret)
                THEN Ok(Unit)
                ELSE Err(PdfiumError("PdfiumFunctionReturnValueIndicatedFailure"))]

\* Mutant: the channels are handed over in the order blue, green, red.
set_fill_color_bgr(color, ret) ==
    Setter("FPDFPageObj_SetFillColor",
           <<as_c_uint(color.blue), as_c_uint(color.green),
             as_c_uint(color.red), as_c_uint(color.alpha)>>, ret)

set_fill_color(color, ret) ==
    Setter("FPDFPageObj_SetFillColor",
           <<as_c_uint(color.red), as_c_uint(color.green),
             as_c_uint(color.blue), as_c_uint(color.alpha)>>, ret)

set_stroke_color(color, ret) ==
    Setter("FPDFPageObj_SetStrokeColor",
           <<as_c_uint(color.red), as_c_uint(color.green),
             as_c_uint(color.blue), as_c_uint(color.alpha)>>, ret)

----------------------------------------------------------------------------
\* The colours of one page object, with a native side that keeps the colour
\* last set with success.

\* The colours the model sets: the boundary values 0 and 255 and colours
\* whose channels all differ.
ColorSamples ==
    <<PdfColor_new(10, 20, 30, 255), PdfColor_new(0, 0, 0, 0),
      PdfColor_new(255, 255, 255, 255), PdfColor_new(255, 0, 254, 1),
      PdfColor_new(0, 255, 1, 128), PdfColor_new(1, 2, 3, 4),
      PdfColor_new(128, 127, 0, 255), PdfColor_new(200, 100, 50, 25)>>

MaxColors == 4

Colors ==
    {ColorSamples[i] : i \in 1..(IF MaxColors < Len(ColorSamples)
                                 THEN MaxColors ELSE Len(ColorSamples))}

\* What the native side may hold before the first set: any c_uint channels,
\* among them values no u8 holds.
InitNativeColors == {<<0, 0, 0, 255>>, <<256, 0, 0, 255>>, <<7, 8, 9, 1000>>}

InitColor ==
    /\ obj = from_pdfium(1, None, None, FPDF_PAGEOBJ_PATH)
    /\ native_type = FPDF_PAGEOBJ_PATH
    /\ alive = TRUE
    /\ destroy_calls = <<>>
    /\ call = NoCall
    /\ prev = NoCall
    /\ native_fill \in InitNativeColors
    /\ native_stroke \in InitNativeColors
    /\ NoCopy
    /\ NoTransform
    /\ NoGlyphPath
    /\ NoLastError

\* The native side after a setter's call that returned ret.
NativeAfter(setter, ret, function, old) ==
    IF is_true(ret) /\ setter.function = function THEN setter.args ELSE old

SetFillColor ==
    /\ \E color \in Colors, ret \in FPDF_BOOL :
           LET setter == set_fill_color(color, ret)
           IN  /\ native_fill' =
                      NativeAfter(setter, ret, "FPDFPageObj_SetFillColor",
                                  native_fill)
               /\ native_stroke' =
                      NativeAfter(setter, ret, "FPDFPageObj_SetStrokeColor",
                                  native_stroke)
               /\ call' = [op |-> "set_fill_color",
                           arg |-> [color |-> color, ret |-> ret],
                           ret |-> setter.result]
    /\ prev' = call
    /\ UNCHANGED OutsideColor

SetStrokeColor ==
    /\ \E color \in Colors, ret \in FPDF_BOOL :
           LET setter == set_stroke_color(color, ret)
           IN  /\ native_fill' =
                      NativeAfter(setter, ret, "FPDFPageObj_SetFillColor",
                                  native_fill)
               /\ native_stroke' =
                      NativeAfter(setter, ret, "FPDFPageObj_SetStrokeColor",
                                  native_stroke)
               /\ call' = [op |-> "set_stroke_color",
                           arg |-> [color |-> color, ret |-> ret],
                           ret |-> setter.result]
    /\ prev' = call
    /\ UNCHANGED OutsideColor

FillColor ==
    /\ \E ret \in FPDF_BOOL :
           call' = [op |-> "fill_color",
                    arg |-> [ret |-> ret],
                    ret |-> fill_color(ret, native_fill[1], native_fill[2],
                                       native_fill[3], native_fill[4])]
    /\ prev' = call
    /\ UNCHANGED <<native_fill, native_stroke, OutsideColor>>

StrokeColor ==
    /\ \E ret \in FPDF_BOOL :
           call' = [op |-> "stroke_color",
                    arg |-> [ret |-> ret],
                    ret |-> stroke_color(ret, native_stroke[1],
                                         native_stroke[2], native_stroke[3],
                                         native_stroke[4])]
    /\ prev' = call
    /\ UNCHANGED <<native_fill, native_stroke, OutsideColor>>

NextColor ==
    \/ SetFillColor
    \/ SetStrokeColor
    \/ FillColor
    \/ StrokeColor

SpecColor == InitColor /\ [][NextColor]_vars

\* C10: a successful set_fill_color(c) followed by fill_color(), whose
\* native getter succeeds, returns Ok with the red, green, blue and alpha of
\* c, for every colour c with channels in 0..=255; and so for
\* set_stroke_color / stroke_color.
C10_ColorRoundTrip ==
    /\ (/\ prev.op = "set_fill_color"
        /\ is_ok(prev.ret)
        /\ call.op = "fill_color"
        /\ is_true(call.arg.ret))
       => call.ret = Ok(prev.arg.color)
    /\ (/\ prev.op = "set_stroke_color"
        /\ is_ok(prev.ret)
        /\ call.op = "stroke_color"
        /\ is_true(call.arg.ret))
       => call.ret = Ok(prev.arg.color)

\* (10, 20, 30, 255) was set as the fill colour and read back.
C10_Witness ==
    /\ prev.op = "set_fill_color"
    /\ is_ok(prev.ret)
    /\ prev.arg.color = PdfColor_new(10, 20, 30, 255)
    /\ call.op = "fill_color"
    /\ call.ret = Ok(PdfColor_new(10, 20, 30, 255))

----------------------------------------------------------------------------
\* PdfFontGlyph and PdfFontGlyphPath (font_glyph.rs).

\* PdfiumInternalError: what get_pdfium_last_error() reports, as
\* Option<PdfiumInternalError>.
PdfiumInternalError ==
    {"Unknown", "File", "Format", "Password", "Security", "Page"}

PdfPoints_new(value) == [value |-> value]

PdfPoints_ZERO == PdfPoints_new(0)

\* A null FPDF_GLYPHPATH / FPDF_PATHSEGMENT.
is_null(handle) == handle = 0

\* Mutant: the out-parameter is returned whatever the native call answered.
width_at_font_size_unchecked(ret, width) == PdfPoints_new(width)

\* PdfFontGlyph::width_at_font_size: ret is what FPDFFont_GetGlyphWidth
\* returned and width what the local holds after the call.
width_at_font_size(ret, width) ==
    IF is_true(ret) THEN PdfPoints_new(width) ELSE PdfPoints_ZERO

PdfFontGlyphPath_from_pdfium(handle) == [handle |-> handle]

\* Mutant: the last error is not asked for; a null handle is always Unknown.
segments_at_font_size_unknown(handle, last_error) ==
    IF is_null(handle)
    THEN Err(PdfiumLibraryInternalError("Unknown"))
    ELSE Ok(PdfFontGlyphPath_from_pdfium(handle))

\* PdfFontGlyph::segments_at_font_size: handle is what FPDFFont_GetGlyphPath
\* returned, last_error what get_pdfium_last_error() reports after it.
segments_at_font_size(handle, last_error) ==
    IF is_null(handle)
    THEN IF is_some(last_error)
         THEN Err(PdfiumLibraryInternalError(last_error[1]))
         ELSE Err(PdfiumLibraryInternalError("Unknown"))
    ELSE Ok(PdfFontGlyphPath_from_pdfium(handle))

\* PdfPathSegmentIndex::try_from for a c_int: the index type is unsigned.
try_into_PdfPathSegmentIndex(count) ==
    IF count >= 0 THEN Ok(count) ELSE Err("TryFromIntError")

\* Mutant: the native count is returned as it is.
len_unchecked(count) == count

\* Mutant: the length observed by the call before is kept.
len_cached(count) ==
    IF call.op = "len"
    THEN call.ret
    ELSE unwrap_or(try_into_PdfPathSegmentIndex(count), 0)

\* PdfFontGlyphPath::len: count is what FPDFGlyphPath_CountGlyphSegments
\* returned.
len(count) == unwrap_or(try_into_PdfPathSegmentIndex(count), 0)

PdfPathSegment_from_pdfium(handle) == [handle |-> handle]

\* Mutant: the last error is not asked for.
get_unknown(handle, last_error) ==
    IF is_null(handle)
    THEN Err(PdfiumLibraryInternalError("Unknown"))
    ELSE Ok(PdfPathSegment_from_pdfium(handle))

\* PdfFontGlyphPath::get: handle is what FPDFGlyphPath_GetGlyphPathSegment
\* returned for the index.
get(handle, last_error) ==
    IF is_null(handle)
    THEN IF is_some(last_error)
         THEN Err(PdfiumLibraryInternalError(last_error[1]))
         ELSE Err(PdfiumLibraryInternalError("Unknown"))
    ELSE Ok(PdfPathSegment_from_pdfium(handle))

----------------------------------------------------------------------------
\* A PdfFontGlyphPath over a glyph path of the native library whose segments
\* change while the wrapper lives.

\* The native side: the number of segments of the glyph path, and the handle
\* of the segment at an index, null for an index that has no segment.
FPDFGlyphPath_CountGlyphSegments(segments) == Len(segments)

FPDFGlyphPath_GetGlyphPathSegment(segments, index) ==
    IF index < Len(segments) THEN segments[index + 1] ELSE 0

\* The glyph paths the native library may hold, as sequences of segment
\* handles, the indices asked for, and what the last-error query may report
\* after a null handle.
SegmentHandles == {1, 2}

GlyphPaths ==
    UNION {[1..n -> SegmentHandles] : n \in 0..MaxGlyphSegments}

Indices == 0..(MaxGlyphSegments + 1)

GlyphPathLastErrors == {None, Some("Unknown"), Some("Security")}

InitGlyphPath ==
    /\ obj = from_pdfium(1, None, None, FPDF_PAGEOBJ_PATH)
    /\ native_type = FPDF_PAGEOBJ_PATH
    /\ alive = TRUE
    /\ destroy_calls = <<>>
    /\ call = NoCall
    /\ prev = NoCall
    /\ native_fill = <<0, 0, 0, 255>>
    /\ native_stroke = <<0, 0, 0, 255>>
    /\ NoCopy
    /\ NoTransform
    /\ glyph_segments \in GlyphPaths
    /\ NoLastError

\* The document changes under the wrapper.
NativeMutation ==
    /\ glyph_segments' \in GlyphPaths \ {glyph_segments}
    /\ UNCHANGED <<call, prev, OutsideGlyphPath>>

\* A call of len(); segments records the glyph path the native library held
\* when the call was made.
GlyphPathLen ==
    /\ call' = [op |-> "len",
                arg |-> [segments |-> glyph_segments],
                ret |-> len(FPDFGlyphPath_CountGlyphSegments(glyph_segments))]
    /\ prev' = call
    /\ UNCHANGED <<glyph_segments, OutsideGlyphPath>>

\* A call of get(index); the last error is asked for after a null handle
\* only.
GlyphPathGet ==
    /\ \E index \in Indices, last_error \in GlyphPathLastErrors :
           LET handle ==
                   FPDFGlyphPath_GetGlyphPathSegment(glyph_segments, index)
           IN  /\ is_null(handle) \/ last_error = None
               /\ call' = [op |-> "get",
                           arg |-> [segments |-> glyph_segments,
                                    index |-> index, handle |-> handle,
                                    last_error |-> last_error],
                           ret |-> get(handle, last_error)]
    /\ prev' = call
    /\ UNCHANGED <<glyph_segments, OutsideGlyphPath>>

NextGlyphPath ==
    \/ NativeMutation
    \/ GlyphPathLen
    \/ GlyphPathGet

SpecGlyphPath == InitGlyphPath /\ [][NextGlyphPath]_vars

----------------------------------------------------------------------------
\* PdfPageObjectCommon: bounds, stroke width, line join, line cap, blend mode.

\* PdfRect, with the four edges as numbers of points.
PdfRect_new(bottom, left, top, right) ==
    [bottom |-> bottom, left |-> left, top |-> top, right |-> right]

PdfRect_width(rect) == PdfPoints_new(rect.right - rect.left)

PdfRect_height(rect) == PdfPoints_new(rect.top - rect.bottom)

PdfRect_is_inside(rect, other) ==
    /\ other.left <= rect.left
    /\ rect.right <= other.right
    /\ other.bottom <= rect.bottom
    /\ rect.top <= other.top

PdfRect_does_overlap(rect, other) ==
    /\ rect.left < other.right
    /\ other.left < rect.right
    /\ rect.bottom < other.top
    /\ other.bottom < rect.top

\* Mutant: width() answers zero when bounds() fails.
width_defaulting(bounds) ==
    IF is_ok(bounds) THEN Ok(PdfRect_width(bounds.val)) ELSE Ok(PdfPoints_ZERO)

\* width(), height(), is_inside_rect() and does_overlap_rect(); bounds is
\* what self.bounds() returned.
width(bounds) == IF is_ok(bounds) THEN Ok(PdfRect_width(bounds.val)) ELSE bounds

height(bounds) ==
    IF is_ok(bounds) THEN Ok(PdfRect_height(bounds.val)) ELSE bounds

is_inside_rect(bounds, rect) ==
    unwrap_or(IF is_ok(bounds)
              THEN Ok(PdfRect_is_inside(bounds.val, rect))
              ELSE bounds,
              FALSE)

\* Mutant: a failed bounds() counts as an overlap.
does_overlap_rect_true(bounds, rect) ==
    unwrap_or(IF is_ok(bounds)
              THEN Ok(PdfRect_does_overlap(bounds.val, rect))
              ELSE bounds,
              TRUE)

does_overlap_rect(bounds, rect) ==
    unwrap_or(IF is_ok(bounds)
              THEN Ok(PdfRect_does_overlap(bounds.val, rect))
              ELSE bounds,
              FALSE)

\* stroke_width(): ret is what FPDFPageObj_GetStrokeWidth returned.
stroke_width(ret, native_width) ==
    IF is_true(ret)
    THEN Ok(PdfPoints_new(native_width))
    ELSE Err(PdfiumError("PdfiumFunctionReturnValueIndicatedFailure"))

set_stroke_width(points, ret) ==
    Setter("FPDFPageObj_SetStrokeWidth", <<points.value>>, ret)

FPDF_LINEJOIN_MITER == 0
FPDF_LINEJOIN_ROUND == 1
FPDF_LINEJOIN_BEVEL == 2
FPDF_LINECAP_BUTT == 0
FPDF_LINECAP_ROUND == 1
FPDF_LINECAP_PROJECTING_SQUARE == 2

PdfPageObjectLineJoin == {"Miter", "Round", "Bevel"}

PdfPageObjectLineJoin_from_pdfium(value) ==
    CASE as_u32(value) = as_u32(FPDF_LINEJOIN_MITER) -> Some("Miter")
      [] as_u32(value) = as_u32(FPDF_LINEJOIN_ROUND) -> Some("Round")
      [] as_u32(value) = as_u32(FPDF_LINEJOIN_BEVEL) -> Some("Bevel")
      [] OTHER -> None

PdfPageObjectLineJoin_as_pdfium(join) ==
    CASE join = "Miter" -> FPDF_LINEJOIN_MITER
      [] join = "Round" -> FPDF_LINEJOIN_ROUND
      [] join = "Bevel" -> FPDF_LINEJOIN_BEVEL

PdfPageObjectLineCap == {"Butt", "Round", "Square"}

PdfPageObjectLineCap_from_pdfium(value) ==
    CASE as_u32(value) = as_u32(FPDF_LINECAP_BUTT) -> Some("Butt")
      [] as_u32(value) = as_u32(FPDF_LINECAP_ROUND) -> Some("Round")
      [] as_u32(value) = as_u32(FPDF_LINECAP_PROJECTING_SQUARE) -> Some("Square")
      [] OTHER -> None

\* Mutant: the constants of Butt and Round are exchanged.
PdfPageObjectLineCap_as_pdfium_swapped(cap) ==
    CASE cap = "Butt" -> FPDF_LINECAP_ROUND
      [] cap = "Round" -> FPDF_LINECAP_BUTT
      [] cap = "Square" -> FPDF_LINECAP_PROJECTING_SQUARE

PdfPageObjectLineCap_as_pdfium(cap) ==
    CASE cap = "Butt" -> FPDF_LINECAP_BUTT
      [] cap = "Round" -> FPDF_LINECAP_ROUND
      [] cap = "Square" -> FPDF_LINECAP_PROJECTING_SQUARE

\* Option::ok_or
ok_or(option, error) == IF is_some(option) THEN Ok(option[1]) ELSE Err(error)

\* Mutant: an unrecognized value is reported as a conversion error.
line_join_conversion_error(value) ==
    ok_or(PdfPageObjectLineJoin_from_pdfium(value),
          PdfiumError("UnknownLineJoin"))

\* line_join(): value is what FPDFPageObj_GetLineJoin returned.
line_join(value) ==
    ok_or(PdfPageObjectLineJoin_from_pdfium(value),
          PdfiumError("PdfiumFunctionReturnValueIndicatedFailure"))

set_line_join(join, ret) ==
    Setter("FPDFPageObj_SetLineJoin",
           <<PdfPageObjectLineJoin_as_pdfium(join)>>, ret)

\* line_cap(): value is what FPDFPageObj_GetLineCap returned.
line_cap(value) ==
    ok_or(PdfPageObjectLineCap_from_pdfium(value),
          PdfiumError("PdfiumFunctionReturnValueIndicatedFailure"))

\* Mutant: the return value of the native call is not looked at.
set_line_cap_unchecked(cap, ret) ==
    [function |-> "FPDFPageObj_SetLineCap",
     args |-> <<PdfPageObjectLineCap_as_pdfium(cap)>>,
     result |-> Ok(Unit)]

set_line_cap(cap, ret) ==
    Setter("FPDFPageObj_SetLineCap",
           <<PdfPageObjectLineCap_as_pdfium(cap)>>, ret)

PdfPageObjectBlendMode ==
    {"Normal", "Multiply", "Screen", "Overlay", "Darken", "Lighten",
     "ColorDodge", "ColorBurn", "HardLight", "SoftLight", "Difference",
     "Exclusion", "HSLColor", "HSLHue", "HSLLuminosity", "HSLSaturation"}

PdfPageObjectBlendMode_as_pdfium(mode) ==
    CASE mode = "HSLColor" -> "Color"
      [] mode = "ColorBurn" -> "ColorBurn"
      [] mode = "ColorDodge" -> "ColorDodge"
      [] mode = "Darken" -> "Darken"
      [] mode = "Difference" -> "Difference"
      [] mode = "Exclusion" -> "Exclusion"
      [] mode = "HardLight" -> "HardLight"
      [] mode = "HSLHue" -> "Hue"
      [] mode = "Lighten" -> "Lighten"
      [] mode = "HSLLuminosity" -> "Luminosity"
      [] mode = "Multiply" -> "Multiply"
      [] mode = "Normal" -> "Normal"
      [] mode = "Overlay" -> "Overlay"
      [] mode = "HSLSaturation" -> "Saturation"
      [] mode = "Screen" -> "Screen"
      [] mode = "SoftLight" -> "SoftLight"

\* Mutant: the last error is not asked for after the call.
set_blend_mode_unchecked(mode, last_error) ==
    [function |-> "FPDFPageObj_SetBlendMode",
     args |-> <<PdfPageObjectBlendMode_as_pdfium(mode)>>,
     result |-> Ok(Unit)]

\* set_blend_mode(): the native call, which returns nothing, and the result,
\* decided by what get_pdfium_last_error() reports after the call.
set_blend_mode(mode, last_error) ==
    [function |-> "FPDFPageObj_SetBlendMode",
     args |-> <<PdfPageObjectBlendMode_as_pdfium(mode)>>,
     result |-> IF is_some(last_error)
                THEN Err(PdfiumLibraryInternalError(last_error[1]))
                ELSE Ok(Unit)]

----------------------------------------------------------------------------
\* set_blend_mode() with the last error the native library keeps between
\* calls.

\* The native side: a call that fails raises an error, which the last-error
\* query reports until another one is raised; a call that succeeds leaves
\* the last error as it was.
LastErrorAfter(before, raised) == IF is_some(raised) THEN raised ELSE before

InitBlendMode ==
    /\ obj = from_pdfium(1, None, None, FPDF_PAGEOBJ_PATH)
    /\ native_type = FPDF_PAGEOBJ_PATH
    /\ alive = TRUE
    /\ destroy_calls = <<>>
    /\ call = NoCall
    /\ prev = NoCall
    /\ native_fill = <<0, 0, 0, 255>>
    /\ native_stroke = <<0, 0, 0, 255>>
    /\ NoCopy
    /\ NoTransform
    /\ NoGlyphPath
    /\ native_last_error = None

\* Some other operation on the document fails in the native library.
EarlierFailure ==
    /\ \E e \in PdfiumInternalError : native_last_error' = Some(e)
    /\ native_last_error' # native_last_error
    /\ UNCHANGED <<call, OutsideBlendMode>>

\* A call of set_blend_mode(); raised is the error FPDFPageObj_SetBlendMode
\* itself raises, None when it succeeds.  The call record keeps the last
\* error before the call and the native calls made.
SetBlendMode ==
    /\ \E mode \in PdfPageObjectBlendMode,
          raised \in Option(PdfiumInternalError) :
           LET after == LastErrorAfter(native_last_error, raised)
               setter == set_blend_mode(mode, after)
           IN  /\ native_last_error' = after
               /\ call' = [op |-> "set_blend_mode",
                           arg |-> [blend_mode |-> mode,
                                    before |-> native_last_error,
                                    raised |-> raised],
                           native |-> <<[function |-> setter.function,
                                         args |-> setter.args]>>,
                           ret |-> setter.result]
    /\ UNCHANGED OutsideBlendMode

NextBlendMode ==
    \/ EarlierFailure
    \/ SetBlendMode

SpecBlendMode == InitBlendMode /\ [][NextBlendMode]_vars

\* The result set_blend_mode() gives when the last-error query reports
\* last_error.
LastErrorResult(last_error) ==
    IF last_error = <<>>
    THEN [tag |-> "Ok", val |-> "()"]
    ELSE [tag |-> "Err",
          err |-> [kind |-> "PdfiumLibraryInternalError",
                   code |-> last_error[1]]]

\* C21: set_blend_mode() calls FPDFPageObj_SetBlendMode exactly once, with
\* the native name of the mode, and decides its result only from the
\* last-error query made after that call: the error if there is one, Ok if
\* there is none.  A last error left by an earlier operation makes it return
\* that error though the set call itself succeeded.
C21_BlendModeFromLastError ==
    call.op = "set_blend_mode"
    => /\ Len(call.native) = 1
       /\ call.native[1].function = "FPDFPageObj_SetBlendMode"
       /\ call.native[1].args =
              <<PdfPageObjectBlendMode_as_pdfium(call.arg.blend_mode)>>
       /\ call.arg.raised # <<>> => call.ret = LastErrorResult(call.arg.raised)
       /\ call.arg.raised = <<>> => call.ret = LastErrorResult(call.arg.before)

\* The set call succeeded while the last error was still Page, left by an
\* earlier operation: set_blend_mode() returned the Page error.
C21_Witness ==
    /\ call.op = "set_blend_mode"
    /\ call.arg.blend_mode = "Multiply"
    /\ call.arg.raised = <<>>
    /\ call.arg.before = <<"Page">>
    /\ call.ret = LastErrorResult(<<"Page">>)

----------------------------------------------------------------------------
\* transform_from(): the matrix of one object is given to another.

\* PdfPageObjectPrivate::matrix: ret is what FPDFPageObj_GetMatrix returned
\* and native the matrix it left in the out-parameter.
matrix(ret, native) ==
    IF is_true(ret)
    THEN Ok(native)
    ELSE Err(PdfiumError("PdfiumFunctionReturnValueIndicatedFailure"))

\* PdfPageObjectPrivate::set_matrix: the matrix is handed to
\* FPDFPageObj_SetMatrix.
set_matrix(m, ret) == Setter("FPDFPageObj_SetMatrix", m, ret)

\* The product of two matrices: m applied first, then n.
PdfMatrix_multiply(m, n) ==
    <<m[1] * n[1] + m[2] * n[3], m[1] * n[2] + m[2] * n[4],
      m[3] * n[1] + m[4] * n[3], m[3] * n[2] + m[4] * n[4],
      m[5] * n[1] + m[6] * n[3] + n[5], m[5] * n[2] + m[6] * n[4] + n[6]>>

\* Mutant: the matrix read is applied on top of the one the object has.
transform_from_composed(read, ret) ==
    IF is_err(read)
    THEN [function |-> "none", args |-> <<>>, result |-> read]
    ELSE set_matrix(PdfMatrix_multiply(native_matrix, read.val), ret)

\* transform_from(other): read is what other.matrix() returned; the
\* ? operator returns its error without a call of set_matrix().
transform_from(read, ret) ==
    IF is_err(read)
    THEN [function |-> "none", args |-> <<>>, result |-> read]
    ELSE set_matrix(read.val, ret)

\* The matrices of the model: a scaling, a skew and a translation.
Matrices ==
    {<<a, b, 0, a, e, 0>> : a \in 1..MaxScale, b \in {0, 1},
                            e \in 0..MaxTranslate}

InitMatrix ==
    /\ obj = from_pdfium(1, None, None, FPDF_PAGEOBJ_PATH)
    /\ native_type = FPDF_PAGEOBJ_PATH
    /\ alive = TRUE
    /\ destroy_calls = <<>>
    /\ call = NoCall
    /\ prev = NoCall
    /\ native_fill = <<0, 0, 0, 255>>
    /\ native_stroke = <<0, 0, 0, 255>>
    /\ NoCopy
    /\ native_matrix \in Matrices
    /\ other_matrix \in Matrices
    /\ NoGlyphPath
    /\ NoLastError

\* A call of transform_from(other); get_ret and set_ret are what the two
\* native calls return.
TransformFrom ==
    /\ \E get_ret \in FPDF_BOOL, set_ret \in FPDF_BOOL :
           LET setter == transform_from(matrix(get_ret, other_matrix), set_ret)
           IN  /\ native_matrix' =
                      NativeAfter(setter, set_ret, "FPDFPageObj_SetMatrix",
                                  native_matrix)
               /\ call' = [op |-> "transform_from",
                           arg |-> [destination |-> native_matrix,
                                    source |-> other_matrix,
                                    get_ret |-> get_ret, set_ret |-> set_ret],
                           ret |-> setter.result]
    /\ prev' = call
    /\ UNCHANGED <<other_matrix, OutsideMatrix>>

\* A call of matrix() on the object.
Matrix ==
    /\ \E ret \in FPDF_BOOL :
           call' = [op |-> "matrix", arg |-> [ret |-> ret],
                    ret |-> matrix(ret, native_matrix)]
    /\ prev' = call
    /\ UNCHANGED <<native_matrix, other_matrix, OutsideMatrix>>

NextMatrix ==
    \/ TransformFrom
    \/ Matrix

SpecMatrix == InitMatrix /\ [][NextMatrix]_vars

\* C14: transform_from(other) reads the matrix of other and, if the read
\* succeeds, sets the matrix of the object to exactly that matrix, whatever
\* matrix the object had (replacement, not composition); the matrix of other
\* is unchanged.  If the read fails, the error is returned and the object
\* keeps its matrix.
C14_TransformReplaces ==
    call.op = "transform_from"
    => /\ is_ok(call.ret) => native_matrix = call.arg.source
       /\ other_matrix = call.arg.source
       /\ call.arg.get_ret = 0
          => is_err(call.ret) /\ native_matrix = call.arg.destination

\* An object scaled by 2, skewed and translated took the matrix of an object
\* that is only translated.
C14_Witness ==
    /\ call.op = "transform_from"
    /\ is_ok(call.ret)
    /\ call.arg.destination = <<2, 1, 0, 2, 1, 0>>
    /\ call.arg.source = <<1, 0, 0, 1, 1, 0>>
    /\ native_matrix = <<1, 0, 0, 1, 1, 0>>

\* The three enumerated style sets, by name, with their values and their
\* as_pdfium().
StyleSets ==
    {"PdfPageObjectBlendMode", "PdfPageObjectLineJoin", "PdfPageObjectLineCap"}

StyleValues(set) ==
    CASE set = "PdfPageObjectBlendMode" -> PdfPageObjectBlendMode
      [] set = "PdfPageObjectLineJoin" -> PdfPageObjectLineJoin
      [] set = "PdfPageObjectLineCap" -> PdfPageObjectLineCap

as_pdfium(set, x) ==
    CASE set = "PdfPageObjectBlendMode" -> PdfPageObjectBlendMode_as_pdfium(x)
      [] set = "PdfPageObjectLineJoin" -> PdfPageObjectLineJoin_as_pdfium(x)
      [] set = "PdfPageObjectLineCap" -> PdfPageObjectLineCap_as_pdfium(x)

\* The style sets that have a from_pdfium(), and that function.
FromPdfiumSets == {"PdfPageObjectLineJoin", "PdfPageObjectLineCap"}

style_from_pdfium(set, value) ==
    CASE set = "PdfPageObjectLineJoin" -> PdfPageObjectLineJoin_from_pdfium(value)
      [] set = "PdfPageObjectLineCap" -> PdfPageObjectLineCap_from_pdfium(value)

----------------------------------------------------------------------------
\* Single calls of the operations, each with every answer the native side
\* may give (the bindings are a trait: an implementation may answer
\* anything of the right type).

MaxWidth == 3
MaxHandle == 2
MaxSegments == 2
MaxCoord == 1
MaxLineStyle == 3

\* Lengths in points, as whole numbers.
Widths == 0..MaxWidth

\* FPDF_GLYPHPATH / FPDF_PATHSEGMENT values; 0 is the null handle.
Handles == 0..MaxHandle

LastErrors == Option(PdfiumInternalError)

\* What FPDFGlyphPath_CountGlyphSegments may return.
Counts == (-2)..MaxSegments

Rects ==
    {PdfRect_new(b, l, t, r) :
        <<b, l, t, r>> \in {q \in (0..MaxCoord) \X (0..MaxCoord)
                                 \X (0..MaxCoord) \X (0..MaxCoord) :
                               q[1] <= q[3] /\ q[2] <= q[4]}}

\* What bounds() may return.
BoundsResults ==
    {Ok(rect) : rect \in Rects}
    \cup {Err(PdfiumError("PdfiumFunctionReturnValueIndicatedFailure")),
          Err(PdfiumLibraryInternalError("Unknown"))}

\* What FPDFPageObj_GetLineJoin / GetLineCap may return.
LineStyles == (-1)..MaxLineStyle

\* c_uint channel values a native colour getter may leave.
NativeChannels == {0, 255, 256}

InitCalls ==
    /\ obj = from_pdfium(1, None, None, FPDF_PAGEOBJ_PATH)
    /\ native_type = FPDF_PAGEOBJ_PATH
    /\ alive = TRUE
    /\ destroy_calls = <<>>
    /\ call = NoCall
    /\ prev = NoCall
    /\ native_fill = <<0, 0, 0, 255>>
    /\ native_stroke = <<0, 0, 0, 255>>
    /\ NoCopy
    /\ NoTransform
    /\ NoGlyphPath
    /\ NoLastError

CallWidthAtFontSize ==
    /\ \E ret \in FPDF_BOOL, w \in Widths, last_error \in LastErrors :
           call' = [op |-> "width_at_font_size",
                    arg |-> [ret |-> ret, width |-> w,
                             last_error |-> last_error],
                    ret |-> width_at_font_size(ret, w)]
    /\ UNCHANGED OutsideCalls

CallSegmentsAtFontSize ==
    /\ \E handle \in Handles, last_error \in LastErrors :
           call' = [op |-> "segments_at_font_size",
                    arg |-> [handle |-> handle, last_error |-> last_error],
                    ret |-> segments_at_font_size(handle, last_error)]
    /\ UNCHANGED OutsideCalls

CallLen ==
    /\ \E count \in Counts :
           call' = [op |-> "len", arg |-> [count |-> count],
                    ret |-> len(count)]
    /\ UNCHANGED OutsideCalls

CallGet ==
    /\ \E handle \in Handles, last_error \in LastErrors :
           call' = [op |-> "get",
                    arg |-> [handle |-> handle, last_error |-> last_error],
                    ret |-> get(handle, last_error)]
    /\ UNCHANGED OutsideCalls

CallFromPdfium ==
    /\ \E type_code \in TypeCodes :
           call' = [op |-> "from_pdfium", arg |-> [type_code |-> type_code],
                    ret |-> object_type(from_pdfium(1, None, None, type_code))]
    /\ UNCHANGED OutsideCalls

CallWidth ==
    /\ \E bounds \in BoundsResults :
           call' = [op |-> "width", arg |-> [bounds |-> bounds],
                    ret |-> width(bounds)]
    /\ UNCHANGED OutsideCalls

CallHeight ==
    /\ \E bounds \in BoundsResults :
           call' = [op |-> "height", arg |-> [bounds |-> bounds],
                    ret |-> height(bounds)]
    /\ UNCHANGED OutsideCalls

CallIsInsideRect ==
    /\ \E bounds \in BoundsResults, rect \in Rects :
           call' = [op |-> "is_inside_rect",
                    arg |-> [bounds |-> bounds, rect |-> rect],
                    ret |-> is_inside_rect(bounds, rect)]
    /\ UNCHANGED OutsideCalls

CallDoesOverlapRect ==
    /\ \E bounds \in BoundsResults, rect \in Rects :
           call' = [op |-> "does_overlap_rect",
                    arg |-> [bounds |-> bounds, rect |-> rect],
                    ret |-> does_overlap_rect(bounds, rect)]
    /\ UNCHANGED OutsideCalls

CallFillColor ==
    /\ \E ret \in FPDF_BOOL, r \in NativeChannels, g \in NativeChannels,
          b \in NativeChannels, a \in NativeChannels :
           call' = [op |-> "fill_color",
                    arg |-> [ret |-> ret, native |-> <<r, g, b, a>>],
                    ret |-> fill_color(ret, r, g, b, a)]
    /\ UNCHANGED OutsideCalls

CallStrokeColor ==
    /\ \E ret \in FPDF_BOOL, r \in NativeChannels, g \in NativeChannels,
          b \in NativeChannels, a \in NativeChannels :
           call' = [op |-> "stroke_color",
                    arg |-> [ret |-> ret, native |-> <<r, g, b, a>>],
                    ret |-> stroke_color(ret, r, g, b, a)]
    /\ UNCHANGED OutsideCalls

CallSetFillColor ==
    /\ \E color \in Colors, ret \in FPDF_BOOL :
           call' = [op |-> "set_fill_color",
                    arg |-> [color |-> color, ret |-> ret],
                    ret |-> set_fill_color(color, ret).result]
    /\ UNCHANGED OutsideCalls

CallSetStrokeColor ==
    /\ \E color \in Colors, ret \in FPDF_BOOL :
           call' = [op |-> "set_stroke_color",
                    arg |-> [color |-> color, ret |-> ret],
                    ret |-> set_stroke_color(color, ret).result]
    /\ UNCHANGED OutsideCalls

CallStrokeWidth ==
    /\ \E ret \in FPDF_BOOL, w \in Widths :
           call' = [op |-> "stroke_width",
                    arg |-> [ret |-> ret, width |-> w],
                    ret |-> stroke_width(ret, w)]
    /\ UNCHANGED OutsideCalls

CallSetStrokeWidth ==
    /\ \E w \in Widths, ret \in FPDF_BOOL :
           call' = [op |-> "set_stroke_width",
                    arg |-> [width |-> w, ret |-> ret],
                    ret |-> set_stroke_width(PdfPoints_new(w), ret).result]
    /\ UNCHANGED OutsideCalls

CallLineJoin ==
    /\ \E value \in LineStyles :
           call' = [op |-> "line_join", arg |-> [value |-> value],
                    ret |-> line_join(value)]
    /\ UNCHANGED OutsideCalls

CallSetLineJoin ==
    /\ \E join \in PdfPageObjectLineJoin, ret \in FPDF_BOOL :
           call' = [op |-> "set_line_join",
                    arg |-> [line_join |-> join, ret |-> ret],
                    ret |-> set_line_join(join, ret).result]
    /\ UNCHANGED OutsideCalls

CallLineCap ==
    /\ \E value \in LineStyles :
           call' = [op |-> "line_cap", arg |-> [value |-> value],
                    ret |-> line_cap(value)]
    /\ UNCHANGED OutsideCalls

CallSetLineCap ==
    /\ \E cap \in PdfPageObjectLineCap, ret \in FPDF_BOOL :
           call' = [op |-> "set_line_cap",
                    arg |-> [line_cap |-> cap, ret |-> ret],
                    ret |-> set_line_cap(cap, ret).result]
    /\ UNCHANGED OutsideCalls

CallSetBlendMode ==
    /\ \E mode \in PdfPageObjectBlendMode, last_error \in LastErrors :
           call' = [op |-> "set_blend_mode",
                    arg |-> [blend_mode |-> mode, last_error |-> last_error],
                    ret |-> set_blend_mode(mode, last_error).result]
    /\ UNCHANGED OutsideCalls

\* A call of as_pdfium() on a value of one of the style sets.
CallAsPdfium ==
    /\ \E set \in StyleSets :
           \E x \in StyleValues(set) :
               call' = [op |-> "as_pdfium", arg |-> [set |-> set, value |-> x],
                        ret |-> as_pdfium(set, x)]
    /\ UNCHANGED OutsideCalls

NextCalls ==
    \/ CallWidthAtFontSize
    \/ CallSegmentsAtFontSize
    \/ CallLen
    \/ CallGet
    \/ CallFromPdfium
    \/ CallWidth
    \/ CallHeight
    \/ CallIsInsideRect
    \/ CallDoesOverlapRect
    \/ CallFillColor
    \/ CallStrokeColor
    \/ CallSetFillColor
    \/ CallSetStrokeColor
    \/ CallStrokeWidth
    \/ CallSetStrokeWidth
    \/ CallLineJoin
    \/ CallSetLineJoin
    \/ CallLineCap
    \/ CallSetLineCap
    \/ CallSetBlendMode
    \/ CallAsPdfium

SpecCalls == InitCalls /\ [][NextCalls]_vars

----------------------------------------------------------------------------
\* Claims about single calls (specification SpecCalls).

\* The native call behind the last operation signalled failure: a false
\* FPDF_BOOL, a null handle, a negative count, a line style or type code
\* that is none of the known constants, a bounds query that failed, a last
\* error left set.
NativeFailed ==
    CASE call.op \in {"width_at_font_size", "fill_color", "stroke_color",
                      "set_fill_color", "set_stroke_color", "stroke_width",
                      "set_stroke_width", "set_line_join", "set_line_cap"} ->
             call.arg.ret = 0
      [] call.op \in {"segments_at_font_size", "get"} -> call.arg.handle = 0
      [] call.op = "len" -> call.arg.count < 0
      [] call.op = "from_pdfium" -> call.arg.type_code \notin 0..5
      [] call.op \in {"width", "height", "is_inside_rect",
                      "does_overlap_rect"} -> call.arg.bounds.tag = "Err"
      [] call.op \in {"line_join", "line_cap"} -> call.arg.value \notin 0..2
      [] call.op = "set_blend_mode" -> call.arg.last_error # <<>>
      [] OTHER -> FALSE

\* The operations whose return type is a Result.
ResultOps ==
    {"segments_at_font_size", "get", "width", "height", "fill_color",
     "stroke_color", "set_fill_color", "set_stroke_color", "stroke_width",
     "set_stroke_width", "line_join", "set_line_join", "line_cap",
     "set_line_cap", "set_blend_mode"}

\* C7 as stated: but for the glyph width query and kind discrimination,
\* every operation whose native call signals failure returns a typed failure
\* and never a default value.
C7_OnlyTwoDefault ==
    (NativeFailed /\ call.op \notin {"width_at_font_size", "from_pdfium"})
    => (call.op \in ResultOps /\ call.ret.tag = "Err")

\* C7 as amended: five operations turn a native failure into a default
\* value: width_at_font_size (zero), kind discrimination in from_pdfium
\* (Unsupported), is_inside_rect and does_overlap_rect (false, when bounds()
\* fails) and PdfFontGlyphPath::len (0, for a negative native count); each
\* of segments_at_font_size, get, width, height, the four colour
\* operations, the two stroke width operations, the four line join / line
\* cap operations and set_blend_mode returns a typed failure whenever its
\* native call signals failure.
C7_FiveDefault ==
    NativeFailed
    => CASE call.op = "width_at_font_size" -> call.ret = [value |-> 0]
         [] call.op = "from_pdfium" -> call.ret = "Unsupported"
         [] call.op \in {"is_inside_rect", "does_overlap_rect"} ->
                call.ret = FALSE
         [] call.op = "len" -> call.ret = 0
         [] OTHER -> call.op \in ResultOps /\ call.ret.tag = "Err"

\* is_inside_rect() answered false, for the rectangle from (0, 0) to (1, 1),
\* because bounds() had failed.
C7_Witness ==
    /\ call.op = "is_inside_rect"
    /\ call.arg.bounds.tag = "Err"
    /\ call.arg.rect = [bottom |-> 0, left |-> 0, top |-> 1, right |-> 1]
    /\ call.ret = FALSE

C9_WidthZeroOnFailure ==
    call.op = "width_at_font_size"
    => /\ call.arg.ret = 0 => call.ret = [value |-> 0]
       /\ call.arg.ret # 0 => call.ret = [value |-> call.arg.width]
       /\ DOMAIN call.ret = {"value"}

\* The native call failed after writing 3 to the out-parameter, with a last
\* error set: the width is zero.
C9_Witness ==
    /\ call.op = "width_at_font_size"
    /\ call.arg.ret = 0
    /\ call.arg.width = 3
    /\ call.arg.last_error = <<"Page">>
    /\ call.ret = [value |-> 0]

\* The error a native boolean return of false is turned into.
FunctionFailure == Err(PdfiumError("PdfiumFunctionReturnValueIndicatedFailure"))

\* line_join() or line_cap() was called and the native library reported an
\* integer that is none of the three constants.
UnrecognizedLineStyle ==
    /\ call.op \in {"line_join", "line_cap"}
    /\ call.arg.value \notin 0..2

\* C13 as stated: for an unrecognized line join or line cap integer,
\* line_join() / line_cap() return a failure of the conversion category, an
\* error kind other than the function-indicated failure.
C13_UnrecognizedIsConversionError ==
    UnrecognizedLineStyle
    => /\ is_err(call.ret)
       /\ call.ret.err.kind # "PdfiumFunctionReturnValueIndicatedFailure"

\* C13 as amended: for an unrecognized line join or line cap integer,
\* line_join() / line_cap() return the function-indicated failure, the same
\* error the setters return when the native boolean signals failure; for a
\* recognized integer they return the value of that constant.
C13_UnrecognizedIsFunctionFailure ==
    /\ UnrecognizedLineStyle => call.ret = FunctionFailure
    /\ (call.op \in {"line_join", "line_cap"} /\ call.arg.value \in 0..2)
       => is_ok(call.ret)
    /\ (call.op \in {"set_line_join", "set_line_cap"} /\ call.arg.ret = 0)
       => call.ret = FunctionFailure

\* line_join() was called when the native library reported 3.
C13_Witness ==
    /\ call.op = "line_join"
    /\ call.arg.value = 3
    /\ call.ret = FunctionFailure

\* C17 as stated: each of the three style sets has a conversion from the
\* native constant that takes as_pdfium(x) back to x, and as_pdfium() gives
\* distinct values distinct constants.
C17_StylesBidirectional ==
    call.op = "as_pdfium"
    => /\ call.arg.set \in FromPdfiumSets
       /\ style_from_pdfium(call.arg.set, call.ret) = Some(call.arg.value)
       /\ \A y \in StyleValues(call.arg.set) \ {call.arg.value} :
              as_pdfium(call.arg.set, y) # call.ret

\* C17 as amended: as_pdfium() gives distinct values distinct constants in
\* each of the three style sets; line join and line cap have a from_pdfium()
\* that takes as_pdfium(x) back to x, blend mode is mapped to its native
\* constant only.
C17_StylesInjective ==
    call.op = "as_pdfium"
    => /\ call.arg.set \in FromPdfiumSets
          => style_from_pdfium(call.arg.set, call.ret) = Some(call.arg.value)
       /\ \A y \in StyleValues(call.arg.set) \ {call.arg.value} :
              as_pdfium(call.arg.set, y) # call.ret

\* as_pdfium() of the line cap Square gave FPDF_LINECAP_PROJECTING_SQUARE.
C17_Witness ==
    /\ call.op = "as_pdfium"
    /\ call.arg = [set |-> "PdfPageObjectLineCap", value |-> "Square"]
    /\ call.ret = 2

\* fill_color() or stroke_color() was called and the native getter
\* succeeded.
ColorRead ==
    /\ call.op \in {"fill_color", "stroke_color"}
    /\ call.arg.ret # 0

\* C18: when the native colour getter succeeds with one of the four channels
\* outside 0..=255, fill_color() and stroke_color() return
\* UnableToConvertPdfiumColorValueToRustu8, never a colour; with all four
\* within 0..=255 they return the colour of exactly those channels.
C18_ChannelOutOfRange ==
    ColorRead
    => IF \E i \in 1..4 : call.arg.native[i] \notin 0..255
       THEN /\ is_err(call.ret)
            /\ call.ret.err.kind = "UnableToConvertPdfiumColorValueToRustu8"
       ELSE call.ret = Ok([red |-> call.arg.native[1],
                           green |-> call.arg.native[2],
                           blue |-> call.arg.native[3],
                           alpha |-> call.arg.native[4]])

\* stroke_color() was called when the native getter reported a blue channel
\* of 256 and the others of 255.
C18_Witness ==
    /\ call.op = "stroke_color"
    /\ call.arg = [ret |-> 1, native |-> <<255, 255, 256, 255>>]
    /\ is_err(call.ret)

\* The setters and getters whose native call returns a boolean.
BooleanOps ==
    {"set_fill_color", "set_stroke_color", "set_stroke_width", "set_line_join",
     "set_line_cap", "fill_color", "stroke_color", "stroke_width"}

\* The wrapper, Unattached and independently owned when the call was made,
\* still is.
WrapperUntouched ==
    /\ Unattached(obj)
    /\ ~is_object_memory_owned_by_container(obj)

\* C19 as stated: each of the eight returns the function-indicated failure
\* exactly when the native call returns false and a success when it returns
\* true; a failing setter leaves the wrapper's attachment and ownership flag
\* as they were.
C19_FailureIffFalse ==
    call.op \in BooleanOps
    => /\ call.ret = FunctionFailure <=> call.arg.ret = 0
       /\ call.arg.ret # 0 => is_ok(call.ret)
       /\ call.arg.ret = 0 => WrapperUntouched

\* C19 as amended: each of the eight returns the function-indicated failure
\* exactly when the native call returns false; when it returns true the
\* result is a success, but for fill_color() and stroke_color(), which return
\* the conversion error when a channel is outside 0..=255; a failing setter
\* leaves the wrapper's attachment and ownership flag as they were.
C19_FailureIffFalseButChannels ==
    call.op \in BooleanOps
    => /\ call.ret = FunctionFailure <=> call.arg.ret = 0
       /\ call.arg.ret # 0
          => \/ is_ok(call.ret)
             \/ /\ call.op \in {"fill_color", "stroke_color"}
                /\ \E i \in 1..4 : call.arg.native[i] \notin 0..255
                /\ call.ret.err.kind = "UnableToConvertPdfiumColorValueToRustu8"
       /\ call.arg.ret = 0 => WrapperUntouched

\* set_line_cap() was called and the native call returned false.
C19_Witness ==
    /\ call.op = "set_line_cap"
    /\ call.arg.ret = 0
    /\ call.ret = FunctionFailure
    /\ Unattached(obj)

----------------------------------------------------------------------------
\* Claims about a glyph path that changes (specification SpecGlyphPath).

\* The error get() and segments_at_font_size() share: the last error if
\* there is one, Unknown if there is none.
NullHandleError(last_error) ==
    [tag |-> "Err",
     err |-> [kind |-> "PdfiumLibraryInternalError",
              code |-> IF last_error = <<>> THEN "Unknown" ELSE last_error[1]]]

\* C15: get(index) returns Ok exactly when
\* FPDFGlyphPath_GetGlyphPathSegment returns a non-null handle; for an index
\* at or beyond the native length the handle is null and get() returns
\* Err(PdfiumLibraryInternalError(e)) when the last error is e and
\* Err(PdfiumLibraryInternalError(Unknown)) when there is none.
C15_GetTaxonomy ==
    call.op = "get"
    => /\ is_ok(call.ret) <=> call.arg.handle # 0
       /\ call.arg.handle # 0 => call.ret.val = [handle |-> call.arg.handle]
       /\ call.arg.index >= Len(call.arg.segments)
          => call.ret = NullHandleError(call.arg.last_error)
       /\ call.arg.index < Len(call.arg.segments)
          => call.ret.val.handle = call.arg.segments[call.arg.index + 1]

\* get(2) on a glyph path of two segments, with the last error Security.
C15_Witness ==
    /\ call.op = "get"
    /\ call.arg.index = 2
    /\ Len(call.arg.segments) = 2
    /\ call.arg.last_error = <<"Security">>
    /\ call.ret.err.code = "Security"

\* C16: every call of len() and get(index) answers from the glyph path the
\* native library holds when the call is made: after a change of the native
\* segments the next call returns the new value, not the one an earlier
\* call observed.
C16_NoCaching ==
    /\ call.op = "len" => call.ret = Len(call.arg.segments)
    /\ call.op = "get" =>
           IF call.arg.index < Len(call.arg.segments)
           THEN call.ret = Ok([handle |->
                                   call.arg.segments[call.arg.index + 1]])
           ELSE is_err(call.ret)

\* Two calls of len() in a row, the native segments having changed in
\* between: the second returned the new length.
C16_Witness ==
    /\ prev.op = "len"
    /\ call.op = "len"
    /\ prev.arg.segments = <<1, 2>>
    /\ call.arg.segments = <<2>>
    /\ prev.ret = 2
    /\ call.ret = 1

----------------------------------------------------------------------------
\* Claims about the bounds tests and the length of a glyph path
\* (specification SpecCalls).

\* C22: is_inside_rect(rect) and does_overlap_rect(rect) return false
\* whenever bounds() fails, for every rect, and otherwise the result of the
\* bounds rectangle's is_inside / does_overlap test; width() and height()
\* return the error of bounds() unchanged, and otherwise the width and the
\* height of the bounds.
C22_BoundsFailureIsFalse ==
    /\ call.op \in {"is_inside_rect", "does_overlap_rect"}
       => IF call.arg.bounds.tag = "Err"
          THEN call.ret = FALSE
          ELSE call.ret =
                   IF call.op = "is_inside_rect"
                   THEN PdfRect_is_inside(call.arg.bounds.val, call.arg.rect)
                   ELSE PdfRect_does_overlap(call.arg.bounds.val,
                                             call.arg.rect)
    /\ call.op \in {"width", "height"}
       => IF call.arg.bounds.tag = "Err"
          THEN call.ret = call.arg.bounds
          ELSE call.ret =
                   [tag |-> "Ok",
                    val |-> [value |->
                        IF call.op = "width"
                        THEN call.arg.bounds.val.right
                                 - call.arg.bounds.val.left
                        ELSE call.arg.bounds.val.top
                                 - call.arg.bounds.val.bottom]]

\* does_overlap_rect() answered false for the rectangle from (0, 0) to
\* (1, 1) because bounds() had failed with an internal error.
C22_Witness ==
    /\ call.op = "does_overlap_rect"
    /\ call.arg.bounds = [tag |-> "Err",
                          err |-> [kind |-> "PdfiumLibraryInternalError",
                                   code |-> "Unknown"]]
    /\ call.arg.rect = [bottom |-> 0, left |-> 0, top |-> 1, right |-> 1]
    /\ call.ret = FALSE

\* C23: len() returns 0 whenever the native segment count does not convert
\* to the index type, as a negative count does not, and the native count
\* unchanged otherwise; the result is always a number, never a failure.
C23_LenZeroOnNegative ==
    call.op = "len"
    => /\ call.arg.count < 0 => call.ret = 0
       /\ call.arg.count >= 0 => call.ret = call.arg.count
       /\ call.ret \in Nat

\* The native count was -1: len() returned 0.
C23_Witness ==
    /\ call.op = "len"
    /\ call.arg.count = -1
    /\ call.ret = 0

====
